---- MODULE Spec2Model ----
(***************************************************************************)
(* Model of shipit_bot/sync.py: BugSync, Bot.list_bugs and BotRemote.run,  *)
(* the reconciliation of Bugzilla query results against the bugs a remote  *)
(* shipit server lists under each analysis.                                *)
(***************************************************************************)
EXTENDS Integers, Sequences, FiniteSets, TLC

\* ------------------------------------------------------------------ bounds
MaxList == 2
MaxFail == 2

\* The bugs and the analyses of the spec's scenarios.
Bugs == {100, 200}
AnalysisIds == {"A", "B"}

\* Python's None for BugSync.bug_data; the payload is None when the sequence
\* holding it is empty.
NoneData == [id |-> 0, query |-> "None", attachments |-> <<>>]
NonePayload == <<>>

SeqsUpTo(S, n) == UNION {[1..k -> S] : k \in 0..n}
ToSet(s) == {s[k] : k \in DOMAIN s}

RECURSIVE SetToSeq(_)
SetToSeq(S) ==
  IF S = {} THEN <<>>
  ELSE LET m == CHOOSE x \in S : \A y \in S : x <= y
       IN <<m>> \o SetToSeq(S \ {m})

\* --------------------------------------------------------------- variables
VARIABLES
  all_analysis,  \* what GET /analysis returns: the ids, in the server's order
  remote,        \* remote store: bug -> ids of the analyses listing it
  tracker,       \* Bugzilla: analysis id -> bugs its query matches
  sync,          \* BotRemote.sync: bug id -> BugSync
  pc,            \* position of BotRemote.run
  i,             \* index into all_analysis of the collection loop
  visited,       \* keys of self.sync the reconciliation loop has visited, in order
  posts,         \* bug -> number of POST /bugs sent in this run
  deletes,       \* bug -> number of DELETE /bugs/{id} sent in this run
  analyzed,      \* bug -> number of bug_analysis calls in this run
  sent,          \* bug -> body of the POST /bugs sent for it (or empty)
  out,           \* bug -> how its visit ended
  crash,         \* the call whose exception left run(), "" if none
  crashAnalysis, \* the analysis that call was about, "" if none
  crashBug,      \* the bug that call was about, 0 if none
  fails,         \* number of calls that failed in this run
  seenRemote,    \* bugs returned by a GET /analysis/{id} of this run
  seenTracker,   \* bugs returned by a list_bugs of this run
  remote0,       \* remote as it was when this run started
  second,        \* this run follows a run in which no call failed
  stage,         \* "run", or the step of a specification of one function
  arg,           \* the input of that function
  res            \* what the function returned

vars == <<all_analysis, remote, tracker, sync, pc, i, visited, posts, deletes,
          analyzed, sent, out, crash, crashAnalysis, crashBug, fails, seenRemote, seenTracker,
          remote0, second, stage, arg, res>>

\* What no step of a run changes.
env == <<all_analysis, tracker, stage, arg, res>>
ghost == <<posts, deletes, analyzed, sent, out>>

\* ------------------------------------------------------------------ BugSync
BugSync(bugzilla_id) ==
  [bugzilla_id |-> bugzilla_id,
   on_remote   |-> <<>>,
   on_bugzilla |-> <<>>,
   bug_data    |-> NoneData,
   payload     |-> NonePayload]

\* get_bug_sync without line 260: the new BugSync is never stored.
get_bug_sync_unstored(map, bugzilla_id) == map

\* BotRemote.get_bug_sync: the map after the call (the entry is map[id]).
get_bug_sync(map, bugzilla_id) ==
  IF bugzilla_id \notin DOMAIN map
  THEN map @@ (bugzilla_id :> BugSync(bugzilla_id))
  ELSE map

\* ------------------------------------------------- analyzer results, users
\* A user reference of an analyzer result: None, a dict (id and email are 0
\* when the key is absent), a str, or anything else.
UserNone == [kind |-> "none", id |-> 0, email |-> 0, name |-> 0]
UserDict(id, email) == [kind |-> "dict", id |-> id, email |-> email, name |-> 0]
UserStr(name) == [kind |-> "str", id |-> 0, email |-> 0, name |-> name]
UserOther == [kind |-> "other", id |-> 0, email |-> 0, name |-> 0]

\* The users Bugzilla knows, as BugzillaUser hands them to the handler.
Directory == {[id |-> 1, email |-> 11], [id |-> 2, email |-> 12]}

NoComment == <<>>
Comment(text) == <<[text |-> text, html |-> [of |-> "", bug |-> 0]]>>

AnalysisPlain ==
  [users |-> [creator |-> UserStr(11), assignee |-> UserDict(1, 0),
              reviewers |-> <<UserDict(0, 12)>>],
   uplift_comment |-> NoComment,
   uplift_author |-> UserNone]

AnalysisUplift ==
  [users |-> [creator |-> UserNone, assignee |-> UserDict(2, 12),
              reviewers |-> <<UserStr(12)>>],
   uplift_comment |-> Comment("approval request"),
   uplift_author |-> UserDict(2, 0)]

AnalysisBadFormat ==
  [users |-> [creator |-> UserStr(11), assignee |-> UserOther,
              reviewers |-> <<>>],
   uplift_comment |-> NoComment,
   uplift_author |-> UserNone]

AnalysisNoKey ==
  [users |-> [creator |-> UserNone, assignee |-> UserDict(1, 0),
              reviewers |-> <<UserDict(0, 0)>>],
   uplift_comment |-> NoComment,
   uplift_author |-> UserNone]

\* What bug_analysis may return for a bug.
AnalyzerResults == {AnalysisUplift, AnalysisBadFormat, AnalysisNoKey}

\* The call of one visit that fails, if any.
Faults == {"none", "analyzer", "uplift", "lookup", "dumps", "http"}

\* libmozdata.patchanalysis.parse_uplift_comment
parse_uplift_comment(text, bugzilla_id) == [of |-> text, bug |-> bugzilla_id]

\* shipit_bot.helpers.compute_dict_hash: the digest of the record serialised
\* with its keys sorted; records that differ in a field differ in digest.
compute_dict_hash(d) ==
  [sha |-> <<[key |-> "attachments", value |-> [list |-> d.attachments, id |-> 0, query |-> ""]],
             [key |-> "id", value |-> [list |-> <<>>, id |-> d.id, query |-> ""]],
             [key |-> "query", value |-> [list |-> <<>>, id |-> 0, query |-> d.query]]>>]

\* The hash taken over the record and the number of matching analyses.
HashInputWithMembership(s) == [s.bug_data EXCEPT !.id = @ + Len(s.on_bugzilla)]

\* Line 43: what update hashes.
HashInput(s) == s.bug_data

\* The roles dict of load_users, in insertion order: <<[key, roles], ...>>.
RolesHas(roles, key) == \E k \in DOMAIN roles : roles[k].key = key
RolesGet(roles, key, default) ==
  IF RolesHas(roles, key)
  THEN roles[CHOOSE k \in DOMAIN roles : roles[k].key = key].roles
  ELSE default
RolesAdd(roles, key, role) ==
  LET with == IF RolesHas(roles, key) THEN roles
              ELSE Append(roles, [key |-> key, roles |-> <<>>])
  IN [k \in DOMAIN with |->
        IF with[k].key = key
        THEN [with[k] EXCEPT !.roles = Append(@, role)]
        ELSE with[k]]

\* BugSync.load_users._extract_user: [ok |-> FALSE] stands for the raise.
_extract_user(roles, user_data, role) ==
  IF user_data.kind = "none" THEN [ok |-> TRUE, roles |-> roles]
  ELSE IF user_data.kind = "dict" THEN
    IF user_data.id # 0
    THEN [ok |-> TRUE, roles |-> RolesAdd(roles, user_data.id, role)]
    ELSE IF user_data.email # 0
    THEN [ok |-> TRUE, roles |-> RolesAdd(roles, user_data.email, role)]
    ELSE [ok |-> FALSE, roles |-> roles]
  ELSE IF user_data.kind = "str"
  THEN [ok |-> TRUE, roles |-> RolesAdd(roles, user_data.name, role)]
  ELSE [ok |-> FALSE, roles |-> roles]

\* The references load_users extracts, in its order, with their roles.
RoleRefs(analysis) ==
  <<[user |-> analysis.users.creator, role |-> "creator"],
    [user |-> analysis.users.assignee, role |-> "assignee"]>>
  \o [k \in DOMAIN analysis.users.reviewers |->
        [user |-> analysis.users.reviewers[k], role |-> "reviewer"]]
  \o <<[user |-> analysis.uplift_author, role |-> "uplift_author"]>>

RECURSIVE ExtractAll(_, _)
ExtractAll(refs, acc) ==
  IF ~acc.ok \/ refs = <<>> THEN acc
  ELSE ExtractAll(Tail(refs), _extract_user(acc.roles, Head(refs).user, Head(refs).role))

\* bugzilla.BugzillaUser(user_names, _handler, out).wait(): one profile per
\* name Bugzilla resolves, each given its roles by _handler.
RECURSIVE BugzillaUser(_, _)
BugzillaUser(user_names, roles) ==
  IF user_names = <<>> THEN <<>>
  ELSE LET found == {u \in Directory : u.id = Head(user_names) \/ u.email = Head(user_names)}
           rest == BugzillaUser(Tail(user_names), roles)
       IN IF found = {} THEN rest
          ELSE LET u == CHOOSE x \in found : TRUE
               IN <<[id |-> u.id, email |-> u.email,
                     roles |-> RolesGet(roles, u.id, RolesGet(roles, u.email, <<>>))]>>
                  \o rest

\* BugSync.load_users: err names the exception that leaves it, "" if none.
load_users(analysis, lookup_ok) ==
  LET ex == ExtractAll(RoleRefs(analysis), [ok |-> TRUE, roles |-> <<>>])
  IN IF ~ex.ok THEN [err |-> "bad_user", users |-> <<>>]
     ELSE IF ~lookup_ok THEN [err |-> "lookup", users |-> <<>>]
     ELSE [err |-> "",
           users |-> BugzillaUser([k \in DOMAIN ex.roles |-> ex.roles[k].key], ex.roles)]

\* Lines 48-50: bug_analysis raised; update logs it and returns False.
AnalyzerErrorRaises == "analyzer"
AnalyzerErrorReturn == "False"

\* BugSync.update: ret is "True", "False", or the exception that leaves it;
\* calls is the number of bug_analysis calls made.
update(s, bugzilla_url, analysis_in, fault) ==
  IF s.payload # NonePayload THEN [ret |-> "True", sync |-> s, calls |-> 0]
  ELSE IF fault = "analyzer" THEN [ret |-> AnalyzerErrorReturn, sync |-> s, calls |-> 1]
  ELSE IF analysis_in.uplift_comment # NoComment /\ fault = "uplift"
  THEN [ret |-> "uplift", sync |-> s, calls |-> 1]
  ELSE
    LET analysis ==
          IF analysis_in.uplift_comment # NoComment
          THEN [analysis_in EXCEPT !.uplift_comment[1].html =
                  parse_uplift_comment(analysis_in.uplift_comment[1].text, s.bugzilla_id)]
          ELSE analysis_in
        loaded == load_users(analysis, fault # "lookup")
    IN IF loaded.err # "" THEN [ret |-> loaded.err, sync |-> s, calls |-> 1]
       ELSE [ret |-> "True",
             calls |-> 1,
             sync |-> [s EXCEPT !.payload =
               <<[bugzilla_id |-> s.bugzilla_id,
                  analysis |-> s.on_bugzilla,
                  payload |-> [url |-> [base |-> bugzilla_url, bug |-> s.bugzilla_id],
                               bug |-> s.bug_data,
                               analysis |-> analysis,
                               users |-> loaded.users],
                  payload_hash |-> compute_dict_hash(HashInput(s))]>>]]

\* ------------------------------------------------------------ Bot.list_bugs
\* What bugzilla.Bugzilla(query).get_data().wait() hands the two handlers:
\* the bugs the query matches, and an attachment list for every bug it was
\* asked about, matched or not.
BugzillaBugs(query) ==
  [b \in tracker[query] |-> [id |-> b, query |-> query, attachments |-> <<>>]]
BugzillaAttachments(query) == [b \in Bugs |-> <<[bug_id |-> b, file |-> "patch"]>>]

\* list_bugs without lines 167-168: a record is made for every attachment id.
list_bugs_keep_stray(bugs, attachments) ==
  [b \in DOMAIN bugs \cup DOMAIN attachments |->
     IF b \in DOMAIN attachments
     THEN [id |-> b,
           query |-> IF b \in DOMAIN bugs THEN bugs[b].query ELSE "None",
           attachments |-> attachments[b]]
     ELSE bugs[b]]

\* Bot.list_bugs: the bug map with the attachments mapped on the bugs.
list_bugs(bugs, attachments) ==
  [b \in DOMAIN bugs |->
     IF b \in DOMAIN attachments
     THEN [bugs[b] EXCEPT !.attachments = attachments[b]]
     ELSE bugs[b]]

\* ------------------------------------------------------------ BotRemote.run
\* Lines 277-279: one on_remote entry per bug of the analysis details.
RECURSIVE MarkRemote(_, _, _)
MarkRemote(map, ids, analysis_id) ==
  IF ids = <<>> THEN map
  ELSE LET m == get_bug_sync(map, Head(ids))
       IN MarkRemote([m EXCEPT ![Head(ids)].on_remote = Append(@, analysis_id)],
                     Tail(ids), analysis_id)

\* MarkOne with line 288 indented under the if of line 286.
MarkOneFirstOnly(map, bugzilla_id, bug_data, analysis_id) ==
  LET m == get_bug_sync(map, bugzilla_id)
  IN [m EXCEPT ![bugzilla_id] =
        IF @.bug_data = NoneData
        THEN [@ EXCEPT !.bug_data = bug_data, !.on_bugzilla = Append(@, analysis_id)]
        ELSE @]

\* MarkOne without the test of line 286: the last record wins.
MarkOneLastWins(map, bugzilla_id, bug_data, analysis_id) ==
  LET m == get_bug_sync(map, bugzilla_id)
  IN [m EXCEPT ![bugzilla_id] =
        [@ EXCEPT !.bug_data = bug_data, !.on_bugzilla = Append(@, analysis_id)]]

\* MarkOne without lines 286-287: the record is never kept.
MarkOneNoData(map, bugzilla_id, bug_data, analysis_id) ==
  LET m == get_bug_sync(map, bugzilla_id)
  IN [m EXCEPT ![bugzilla_id].on_bugzilla = Append(@, analysis_id)]

\* MarkOne without lines 285-288: the tracker result is not recorded.
MarkOneDropped(map, bugzilla_id, bug_data, analysis_id) ==
  get_bug_sync(map, bugzilla_id)

\* Lines 285-288, for one item of raw_bugs.
MarkOne(map, bugzilla_id, bug_data, analysis_id) ==
  LET m == get_bug_sync(map, bugzilla_id)
  IN [m EXCEPT ![bugzilla_id] =
        [@ EXCEPT !.bug_data = IF @ = NoneData THEN bug_data ELSE @,
                  !.on_bugzilla = Append(@, analysis_id)]]

\* Lines 284-288: the loop over raw_bugs.items().
RECURSIVE MarkTracker(_, _, _, _)
MarkTracker(map, ids, raw_bugs, analysis_id) ==
  IF ids = <<>> THEN map
  ELSE MarkTracker(MarkOne(map, Head(ids), raw_bugs[Head(ids)], analysis_id),
                   Tail(ids), raw_bugs, analysis_id)

\* The loop of line 290 indented into the loop of line 272.
AfterListBugsNested(k, n) == "reconcile"

\* Lines 272 and 290: where run() stands after the tracker query of the
\* k-th of n analyses: the next analysis, or the loop over self.sync.
AfterListBugs(k, n) == IF k = n THEN "reconcile" ELSE "remote"

\* Decide with the two tests in the other order.
DecideRemoteFirst(s) ==
  IF Len(s.on_remote) > 0 THEN "delete"
  ELSE IF Len(s.on_bugzilla) > 0 THEN "upsert"
  ELSE "none"

\* Decide upserting only the bugs the remote does not list yet.
DecideNewOnly(s) ==
  IF Len(s.on_bugzilla) > 0 /\ Len(s.on_remote) = 0 THEN "upsert"
  ELSE IF Len(s.on_remote) > 0 /\ Len(s.on_bugzilla) = 0 THEN "delete"
  ELSE "none"

\* Decide with line 306 testing len(sync.on_remote) > 1.
DecideSeveral(s) ==
  IF Len(s.on_bugzilla) > 0 THEN "upsert"
  ELSE IF Len(s.on_remote) > 1 THEN "delete"
  ELSE "none"

\* Decide skipping a bug the remote already lists under its tracker analyses.
DecideUnlessSynced(s) ==
  IF Len(s.on_bugzilla) > 0
  THEN IF ToSet(s.on_remote) = ToSet(s.on_bugzilla) THEN "none" ELSE "upsert"
  ELSE IF Len(s.on_remote) > 0 THEN "delete"
  ELSE "none"

\* Lines 292 and 306: what the loop does with one entry.
Decide(s) ==
  IF Len(s.on_bugzilla) > 0 THEN "upsert"
  ELSE IF Len(s.on_remote) > 0 THEN "delete"
  ELSE "none"

\* run() without the try of line 298: the exception leaves run().
AfterPostUncaught == "crashed"

\* Lines 298-304 and 308-314: where run() stands after a POST or a DELETE
\* raised (both are caught and logged).
AfterPostError == "reconcile"
AfterDeleteError == "reconcile"

\* Lines 292-314 for one entry s, given what bug_analysis returns and which
\* call fails: the entry afterwards, the requests sent and how it ended.
Visit(s, analysis, fault) ==
  LET d == Decide(s)
      u == update(s, "bugzilla_url", analysis, fault)
      quiet == [sync |-> s, calls |-> 0, post |-> 0, delete |-> 0,
                body |-> <<>>, applied |-> FALSE, out |-> "none",
                failed |-> FALSE, pc |-> "reconcile", crash |-> ""]
  IN IF d = "upsert" THEN
       IF u.ret = "False"
       THEN [quiet EXCEPT !.calls = u.calls, !.out = "analyzer_failed", !.failed = TRUE]
       ELSE IF u.ret # "True"
       THEN [quiet EXCEPT !.calls = u.calls, !.out = u.ret, !.failed = TRUE,
                          !.pc = "crashed", !.crash = u.ret]
       ELSE IF fault = "dumps"
       THEN [quiet EXCEPT !.sync = u.sync, !.calls = u.calls, !.out = "dumps_failed",
                          !.failed = TRUE, !.pc = AfterPostError]
       ELSE IF fault = "http"
       THEN [quiet EXCEPT !.sync = u.sync, !.calls = u.calls, !.post = 1,
                          !.body = u.sync.payload, !.out = "post_failed",
                          !.failed = TRUE, !.pc = AfterPostError]
       ELSE [quiet EXCEPT !.sync = u.sync, !.calls = u.calls, !.post = 1,
                          !.body = u.sync.payload, !.applied = TRUE, !.out = "posted"]
     ELSE IF d = "delete" THEN
       IF fault = "http"
       THEN [quiet EXCEPT !.delete = 1, !.out = "delete_failed", !.failed = TRUE,
                          !.pc = AfterDeleteError]
       ELSE [quiet EXCEPT !.delete = 1, !.applied = TRUE, !.out = "deleted"]
     ELSE quiet

\* The remote store after a POST /bugs with this body: the bug is listed
\* under exactly the body's analysis ids.
RemotePost(store, body) == [store EXCEPT ![body.bugzilla_id] = ToSet(body.analysis)]
\* The remote store after DELETE /bugs/{bugzilla_id}.
RemoteDelete(store, bugzilla_id) == [store EXCEPT ![bugzilla_id] = {}]

NoCounts == [b \in Bugs |-> 0]

\* A fresh run: BotRemote.__init__ has set self.sync = {}.
Fresh ==
  /\ sync = <<>>
  /\ pc = "start"
  /\ i = 1
  /\ visited = <<>>
  /\ posts = NoCounts
  /\ deletes = NoCounts
  /\ analyzed = NoCounts
  /\ sent = [b \in Bugs |-> <<>>]
  /\ out = [b \in Bugs |-> "pending"]
  /\ crash = ""
  /\ crashAnalysis = ""
  /\ crashBug = 0
  /\ fails = 0
  /\ seenRemote = {}
  /\ seenTracker = {}

Init ==
  /\ all_analysis \in SeqsUpTo(AnalysisIds, MaxList)
  /\ remote \in [Bugs -> SUBSET AnalysisIds]
  /\ tracker \in [AnalysisIds -> SUBSET Bugs]
  /\ remote0 = remote
  /\ second = FALSE
  /\ Fresh
  /\ stage = "run"
  /\ arg = <<>>
  /\ res = <<>>

\* Line 271: all_analysis = self.make_request('get', '/analysis')
GetAllAnalysis ==
  /\ pc = "start"
  /\ \E ok \in BOOLEAN :
       /\ ~ok => fails < MaxFail
       /\ pc' = IF ~ok THEN "crashed"
                ELSE IF all_analysis = <<>> THEN "reconcile" ELSE "remote"
       /\ crash' = IF ok THEN "" ELSE "get_analysis"
       /\ fails' = IF ok THEN fails ELSE fails + 1
  /\ UNCHANGED <<env, remote, sync, i, visited, ghost, crashAnalysis, crashBug, seenRemote,
                 seenTracker, remote0, second>>

\* Lines 275-279: the bugs the remote lists under all_analysis[i].
ListRemote ==
  /\ pc = "remote"
  /\ LET analysis_id == all_analysis[i]
         listed == {b \in Bugs : analysis_id \in remote[b]}
     IN \E ok \in BOOLEAN :
          /\ ~ok => fails < MaxFail
          /\ LET ids == SetToSeq(listed)
             IN IF ok
                THEN /\ sync' = MarkRemote(sync, ids, analysis_id)
                     /\ seenRemote' = seenRemote \cup ToSet(ids)
                     /\ pc' = "tracker"
                     /\ UNCHANGED <<crash, crashAnalysis, crashBug, fails>>
                ELSE /\ pc' = "crashed"
                     /\ crash' = "list_remote"
                     /\ crashAnalysis' = analysis_id
                     /\ UNCHANGED crashBug
                     /\ fails' = fails + 1
                     /\ UNCHANGED <<sync, seenRemote>>
  /\ UNCHANGED <<env, remote, i, visited, ghost, seenTracker, remote0, second>>

\* Lines 282-288: the bugs the query of all_analysis[i] matches on Bugzilla.
ListBugs ==
  /\ pc = "tracker"
  /\ LET analysis_id == all_analysis[i]
         raw_bugs == list_bugs(BugzillaBugs(analysis_id), BugzillaAttachments(analysis_id))
     IN \E ok \in BOOLEAN :
          /\ ~ok => fails < MaxFail
          /\ IF ok
             THEN /\ sync' = MarkTracker(sync, SetToSeq(DOMAIN raw_bugs), raw_bugs, analysis_id)
                  /\ seenTracker' = seenTracker \cup DOMAIN raw_bugs
                  /\ i' = i + 1
                  /\ pc' = AfterListBugs(i, Len(all_analysis))
                  /\ UNCHANGED <<crash, crashAnalysis, crashBug, fails>>
             ELSE /\ pc' = "crashed"
                  /\ crash' = "list_bugs"
                  /\ crashAnalysis' = analysis_id
                  /\ UNCHANGED crashBug
                  /\ fails' = fails + 1
                  /\ UNCHANGED <<sync, seenTracker, i>>
  /\ UNCHANGED <<env, remote, visited, ghost, seenRemote, remote0, second>>

\* Lines 290-314: one iteration of the loop over self.sync.items().
Reconcile(b) ==
  /\ pc = "reconcile"
  /\ b \in DOMAIN sync \ ToSet(visited)
  /\ \E fault \in Faults :
     \E analysis \in (IF Decide(sync[b]) = "upsert" /\ fault # "analyzer"
                      THEN AnalyzerResults ELSE {AnalysisUplift}) :
       LET v == Visit(sync[b], analysis, fault)
       IN /\ v.failed => fails < MaxFail
          /\ ~v.failed => fault = "none"
          /\ sync' = [sync EXCEPT ![b] = v.sync]
          /\ visited' = Append(visited, b)
          /\ analyzed' = [analyzed EXCEPT ![b] = @ + v.calls]
          /\ posts' = [posts EXCEPT ![b] = @ + v.post]
          /\ deletes' = [deletes EXCEPT ![b] = @ + v.delete]
          /\ sent' = [sent EXCEPT ![b] = IF v.post = 1 THEN v.body ELSE @]
          /\ out' = [out EXCEPT ![b] = v.out]
          /\ remote' = IF ~v.applied THEN remote
                       ELSE IF v.post = 1 THEN RemotePost(remote, v.body[1])
                       ELSE RemoteDelete(remote, b)
          /\ pc' = v.pc
          /\ crash' = v.crash
          /\ crashBug' = IF v.crash # "" THEN b ELSE crashBug
          /\ UNCHANGED crashAnalysis
          /\ fails' = IF v.failed THEN fails + 1 ELSE fails
  /\ UNCHANGED <<env, i, seenRemote, seenTracker, remote0, second>>

\* The loop over self.sync.items() is exhausted: run() returns.
Finish ==
  /\ pc = "reconcile"
  /\ ToSet(visited) = DOMAIN sync
  /\ pc' = "done"
  /\ UNCHANGED <<env, remote, sync, i, visited, ghost, crash, crashAnalysis, crashBug, fails,
                 seenRemote, seenTracker, remote0, second>>

\* The process has ended; the next one constructs a new BotRemote
\* (self.sync = {}) and runs it against the same analyses and tracker.
Construct ==
  /\ pc \in {"done", "crashed"}
  /\ sync' = <<>>
  /\ pc' = "start"
  /\ i' = 1
  /\ visited' = <<>>
  /\ posts' = NoCounts
  /\ deletes' = NoCounts
  /\ analyzed' = NoCounts
  /\ sent' = [b \in Bugs |-> <<>>]
  /\ out' = [b \in Bugs |-> "pending"]
  /\ crash' = ""
  /\ crashAnalysis' = ""
  /\ crashBug' = 0
  /\ fails' = 0
  /\ seenRemote' = {}
  /\ seenTracker' = {}
  /\ remote0' = remote
  /\ second' = (pc = "done" /\ fails = 0)
  /\ UNCHANGED <<env, remote>>

Next ==
  \/ GetAllAnalysis
  \/ ListRemote
  \/ ListBugs
  \/ \E b \in Bugs : Reconcile(b)
  \/ Finish
  \/ Construct

Spec == Init /\ [][Next]_vars

\* ------------------------------------------------------------------ claims
\* The ids GET /analysis returned.
ListedIds == ToSet(all_analysis)
\* The listed analyses whose tracker query returns bug b.
Matching(b) == {a \in ListedIds : b \in tracker[a]}
\* The listed analyses under which the remote listed bug b when the run began.
ListedUnder(b) == {a \in ListedIds : a \in remote0[b]}
\* The visit of bug b ended with its payload produced and serialised.
Produced(b) == out[b] \in {"posted", "post_failed"}

\* C1: when a run in which no call failed has ended, the remote lists every
\* bug under a listed analysis exactly when that analysis's tracker query
\* matched the bug; a second such run, with the same analyses and tracker
\* results, sends no DELETE and leaves the remote membership as it found it.
C1_Convergence ==
  (pc = "done" /\ fails = 0) =>
    /\ \A b \in Bugs : \A a \in ListedIds : (a \in remote[b]) <=> (b \in tracker[a])
    /\ second => /\ \A b \in Bugs : deletes[b] = 0
                 /\ remote = remote0

C1_Witness ==
  /\ pc = "done" /\ fails = 0 /\ second
  /\ posts[100] = 1
  /\ remote[100] = {"A", "B"}
  /\ remote0[200] = {} /\ remote[200] = {}

\* C2: a bug some tracker query returned, and whose payload was produced, is
\* sent exactly one POST /bugs and no DELETE, listed remotely or not.
C2_OnePostNoDelete ==
  \A b \in Bugs :
    /\ posts[b] <= 1
    /\ b \in seenTracker => deletes[b] = 0
    /\ (b \in ToSet(visited) /\ Matching(b) # {}
        /\ out[b] \notin {"analyzer_failed", "uplift", "bad_user", "lookup", "dumps_failed"})
         => Produced(b) /\ posts[b] = 1 /\ deletes[b] = 0

C2_Witness ==
  /\ pc = "done"
  /\ Matching(100) = {"A"} /\ remote0[100] = {"A"}
  /\ posts[100] = 1 /\ deletes[100] = 0 /\ out[100] = "posted"

\* C3: the 'analysis' field of the body posted for a bug is, as a set, the
\* ids of the listed analyses whose tracker query returned the bug, whatever
\* the remote lists; a bug two analyses match gets one POST naming both.
C3_MembershipTag ==
  \A b \in Bugs :
    sent[b] # <<>> =>
      /\ ToSet(sent[b][1].analysis) = Matching(b)
      /\ sent[b][1].bugzilla_id = b
      /\ posts[b] = 1
      /\ Cardinality(Matching(b)) = 2 => Cardinality(ToSet(sent[b][1].analysis)) = 2

C3_Witness ==
  /\ all_analysis = <<"B", "A">>
  /\ posts[100] = 1
  /\ ToSet(sent[100][1].analysis) = {"A", "B"}
  /\ posts[200] = 1
  /\ remote0[200] = {"A", "B"}
  /\ ToSet(sent[200][1].analysis) = {"B"}

\* C4: a bug the remote lists under some listed analysis and no tracker
\* query returned is, once the loop has visited it, sent exactly one DELETE,
\* no POST, and never analyzed; a completed loop has visited every such bug.
C4_OneDelete ==
  \A b \in Bugs :
    /\ deletes[b] <= 1
    /\ b \notin ToSet(visited) => deletes[b] = 0
    /\ (ListedUnder(b) # {} /\ Matching(b) = {}) =>
         /\ pc = "done" => b \in ToSet(visited)
         /\ b \in ToSet(visited) => deletes[b] = 1 /\ posts[b] = 0 /\ analyzed[b] = 0

C4_Witness ==
  /\ all_analysis = <<"A", "B">>
  /\ remote0[200] = {"A", "B"}
  /\ Matching(200) = {}
  /\ deletes[200] = 1 /\ posts[200] = 0 /\ analyzed[200] = 0
  /\ out[200] = "deleted" /\ remote[200] = {}

\* The run has ended, by returning or by an exception leaving run().
Ended == pc \in {"done", "crashed"}
\* The ids GET /analysis returned, the analysis c left out.
OtherIds(c) == ListedIds \ {c}

\* C5: when the remote listing or the tracker query of analysis C fails, the
\* run goes on with the other analyses: each bug is upserted or deleted as
\* the analyses other than C require, and a bug only C knows is left alone.
C5_CollectionFailureSkipsOnlyC ==
  (Ended /\ crash \in {"list_remote", "list_bugs"}) =>
    \A b \in Bugs :
      LET matching == {a \in OtherIds(crashAnalysis) : b \in tracker[a]}
          listed == {a \in OtherIds(crashAnalysis) : a \in remote0[b]}
      IN /\ matching # {} => analyzed[b] = 1
         /\ (matching # {} /\ Produced(b)) =>
              posts[b] = 1 /\ ToSet(sent[b][1].analysis) = matching
         /\ (matching = {} /\ listed # {}) => deletes[b] = 1
         /\ (matching = {} /\ listed = {}) => posts[b] = 0 /\ deletes[b] = 0

\* C6: a malformed user reference in the analyzer result of a bug fails that
\* bug's payload only: nothing is sent for the bug, the run does not end
\* there, and a run that has ended has visited every bug of the sync map.
C6_BadUserSkipsOnlyThatBug ==
  \A b \in Bugs :
    out[b] = "bad_user" =>
      /\ posts[b] = 0 /\ deletes[b] = 0
      /\ Ended => (pc = "done" /\ ToSet(visited) = DOMAIN sync)

\* C7: when bug_analysis raises for a bug, the bug is skipped: its payload
\* stays None, nothing is sent for it although the remote may list it, and
\* the exception does not leave run(), so the loop goes on to the other bugs.
C7_AnalyzerErrorSkipsBug ==
  /\ crash # "analyzer"
  /\ \A b \in Bugs :
    out[b] = "analyzer_failed" =>
      /\ sync[b].payload = NonePayload
      /\ analyzed[b] = 1 /\ posts[b] = 0 /\ deletes[b] = 0
      /\ remote[b] = remote0[b]
      /\ crashBug # b
      /\ pc \in {"reconcile", "done"} \/ (pc = "crashed" /\ crash # "" /\ crashBug # 0)

C7_Witness ==
  /\ pc = "done"
  /\ visited = <<100, 200>>
  /\ out[100] = "analyzer_failed" /\ remote0[100] = {"A"} /\ remote[100] = {"A"}
  /\ Matching(100) = {"A"}
  /\ out[200] = "posted"

\* C8: a POST or DELETE that fails is sent once, not again, and does not end
\* the run: the loop goes on, and when it is done every bug of the sync map
\* has been visited, each with at most one request of its own.
C8_FailedRequestNotRetried ==
  \A b \in Bugs :
    out[b] \in {"post_failed", "delete_failed"} =>
      /\ posts[b] + deletes[b] = 1
      /\ remote[b] = remote0[b]
      /\ pc = "crashed" => (crash # "" /\ crashBug # b)
      /\ pc = "done" =>
           \A o \in DOMAIN sync :
             /\ o \in ToSet(visited)
             /\ out[o] \in {"posted", "post_failed"} => posts[o] = 1 /\ deletes[o] = 0
             /\ out[o] \in {"deleted", "delete_failed"} => posts[o] = 0 /\ deletes[o] = 1

C8_Witness ==
  /\ pc = "done"
  /\ visited = <<200, 100>>
  /\ out[200] = "post_failed" /\ posts[200] = 1
  /\ out[100] = "deleted" /\ deletes[100] = 1 /\ remote[100] = {}

\* C9: no failure of a remote listing, a tracker query, the analyzer, the
\* rendering of the uplift comment, a user reference, the user lookup, an
\* upsert or a delete ends the run before the loop has visited every bug.
C9_RunAlwaysCompletes ==
  pc = "crashed" =>
    crash \notin {"list_remote", "list_bugs", "analyzer", "uplift", "bad_user", "lookup"}

\* C10: the sync map holds an entry for exactly the bugs a remote listing or
\* a tracker query of this run returned; every entry has on_remote or
\* on_bugzilla non-empty, so the loop never reaches the branch that does
\* nothing, and nothing is sent or analyzed for a bug absent from both.
C10_CreationInvariant ==
  /\ DOMAIN sync = seenRemote \cup seenTracker
  /\ \A b \in DOMAIN sync :
       /\ sync[b].bugzilla_id = b
       /\ (sync[b].on_remote # <<>>) <=> (b \in seenRemote)
       /\ (sync[b].on_bugzilla # <<>>) <=> (b \in seenTracker)
       /\ Decide(sync[b]) # "none"
  /\ \A b \in Bugs : out[b] # "none"
  /\ \A b \in Bugs \ DOMAIN sync :
       posts[b] = 0 /\ deletes[b] = 0 /\ analyzed[b] = 0 /\ out[b] = "pending"
  /\ pc \in {"reconcile", "done"} =>
       DOMAIN sync = {b \in Bugs : ListedUnder(b) # {} \/ Matching(b) # {}}

C10_Witness ==
  /\ pc = "done"
  /\ DOMAIN sync = {200}
  /\ remote0[100] = {"B"} /\ all_analysis = <<"A">>
  /\ sync[200].on_remote = <<"A">> /\ sync[200].on_bugzilla = <<>>
  /\ out[200] = "deleted"

\* ------------------------------------------------- claims about a whole run
\* Collection has finished for every analysis GET /analysis returned.
Collected == i = Len(all_analysis) + 1

\* The record the tracker query of analysis a returns for bug b.
RecordOf(a, b) == list_bugs(BugzillaBugs(a), BugzillaAttachments(a))[b]

\* The first listed analysis, in the order of GET /analysis, whose tracker
\* query returns bug b.
FirstMatching(b) ==
  all_analysis[CHOOSE k \in DOMAIN all_analysis :
                 /\ b \in tracker[all_analysis[k]]
                 /\ \A j \in 1..(k - 1) : b \notin tracker[all_analysis[j]]]

\* C13: no POST /bugs, no DELETE /bugs/{id} and no analyzer call is made
\* before the remote listing and the tracker query of every analysis
\* returned by GET /analysis are done; until then the remote store is as the
\* run found it. A bug is deleted only when no listed analysis matches it.
C13_CollectBeforeReconcile ==
  /\ pc = "reconcile" => Collected
  /\ \A b \in Bugs :
       posts[b] + deletes[b] + analyzed[b] > 0 => Collected
  /\ ~Collected => remote = remote0
  /\ \A b \in Bugs : deletes[b] > 0 => sync[b].on_bugzilla = <<>> /\ Matching(b) = {}

\* Two different analyses were collected, then one bug was upserted and the
\* other deleted; the upserted bug is matched by the second analysis only.
C13_Witness ==
  /\ pc = "done"
  /\ Len(all_analysis) = 2 /\ all_analysis[1] # all_analysis[2]
  /\ remote0[100] = {all_analysis[1]}
  /\ Matching(100) = {all_analysis[2]}
  /\ posts[100] = 1 /\ deletes[100] = 0
  /\ deletes[200] = 1

\* C14: whether a visited bug is analyzed and upserted depends on its tracker
\* membership only: a bug some listed analysis matches has the analyzer
\* called once and, unless a call fails, one POST /bugs sent, also in a run
\* that follows a complete run, when the remote already lists the bug under
\* the same analyses and the record and its hash are the same as before.
C14_AlwaysReanalyzed ==
  \A b \in ToSet(visited) :
    /\ analyzed[b] = (IF Matching(b) # {} THEN 1 ELSE 0)
    /\ posts[b] > 0 => Matching(b) # {}
    /\ (Matching(b) # {} /\ out[b] \in {"posted", "post_failed"}) =>
         /\ posts[b] = 1
         /\ sent[b][1].payload_hash = compute_dict_hash(RecordOf(FirstMatching(b), b))
    /\ (Matching(b) # {} /\ fails = 0) => out[b] = "posted"

\* A second run found the bug listed on the remote under exactly its
\* matching analyses, and analyzed and upserted it again.
C14_Witness ==
  /\ second /\ pc = "done" /\ fails = 0
  /\ Matching(100) = {"A", "B"} /\ remote0[100] = {"A", "B"}
  /\ analyzed[100] = 1 /\ posts[100] = 1 /\ out[100] = "posted"

\* C15: a bug's bug_data is the record returned by the first listed analysis
\* that matched it, whichever analyses matched it later; every matching
\* analysis processed so far is in on_bugzilla, in order; the body posted
\* carries that record and its hash.
C15_FirstWriterWins ==
  \A b \in DOMAIN sync :
    /\ sync[b].on_bugzilla # <<>> =>
         /\ sync[b].bug_data = RecordOf(FirstMatching(b), b)
         /\ sync[b].on_bugzilla[1] = FirstMatching(b)
         /\ sync[b].on_bugzilla =
              SelectSeq(SubSeq(all_analysis, 1, i - 1), LAMBDA a : b \in tracker[a])
    /\ sent[b] # <<>> =>
         /\ sent[b][1].payload.bug = RecordOf(FirstMatching(b), b)
         /\ sent[b][1].payload_hash = compute_dict_hash(RecordOf(FirstMatching(b), b))

\* Two analyses returned different records for the bug; the one listed
\* first, B, gave the record that was posted.
C15_Witness ==
  /\ pc = "done"
  /\ all_analysis = <<"B", "A">>
  /\ 100 \in tracker["A"] /\ 100 \in tracker["B"]
  /\ RecordOf("A", 100) # RecordOf("B", 100)
  /\ sync[100].on_bugzilla = <<"B", "A">>
  /\ sync[100].bug_data.query = "B"
  /\ posts[100] = 1 /\ sent[100][1].payload.bug.query = "B"

\* No element occurs twice in the sequence.
NoDuplicates(seq) == Cardinality(ToSet(seq)) = Len(seq)

\* C16: each analysis id occurs at most once in a bug's on_remote and at
\* most once in its on_bugzilla, and the membership posted has no duplicate
\* ids, also when GET /analysis returns the same analysis id twice.
C16_MembershipsAreSets ==
  \A b \in DOMAIN sync :
    /\ NoDuplicates(sync[b].on_remote)
    /\ NoDuplicates(sync[b].on_bugzilla)
    /\ sent[b] # <<>> => NoDuplicates(sent[b][1].analysis)

\* C18: a DELETE /bugs/{id} is sent only when the tracker query of every
\* listed analysis has been executed successfully in this run (each success
\* advances i by one, a failure ends the run) and none of them returned the
\* bug; a run that a failed request ended during collection deletes nothing
\* and leaves the remote store as it found it.
C18_DeletionSafety ==
  /\ \A b \in Bugs :
       deletes[b] > 0 =>
         /\ Collected
         /\ \A a \in ListedIds : b \notin tracker[a]
         /\ b \notin seenTracker
  /\ crash \in {"get_analysis", "list_remote", "list_bugs"} =>
       /\ \A b \in Bugs : deletes[b] = 0
       /\ remote = remote0

\* A bug the remote listed under A was deleted after the queries of A and B
\* both ran and neither returned it; and both queries returned the other bug.
C18_Witness ==
  /\ pc = "done"
  /\ all_analysis = <<"A", "B">>
  /\ remote0[100] = {"A"} /\ tracker["A"] = {200} /\ tracker["B"] = {200}
  /\ deletes[100] = 1 /\ out[100] = "deleted" /\ remote[100] = {}

\* C19: in every state of a run, a bug's bug_data is set exactly when its
\* on_bugzilla is not empty; update is called only on bugs with a record; a
\* bug seen on the remote only keeps bug_data and payload unset.
C19_RecordMembershipCoupling ==
  \A b \in DOMAIN sync :
    /\ sync[b].bug_data # NoneData <=> sync[b].on_bugzilla # <<>>
    /\ analyzed[b] > 0 => sync[b].bug_data # NoneData
    /\ sync[b].on_bugzilla = <<>> =>
         sync[b].bug_data = NoneData /\ sync[b].payload = NonePayload

\* One bug was analyzed with its record set; the other, seen on the remote
\* only, was deleted with neither a record nor a payload.
C19_Witness ==
  /\ pc = "done"
  /\ analyzed[100] = 1 /\ sync[100].bug_data # NoneData /\ sync[100].payload # NonePayload
  /\ 200 \in seenRemote /\ 200 \notin seenTracker
  /\ deletes[200] = 1 /\ sync[200].bug_data = NoneData /\ sync[200].payload = NonePayload

\* ------------------------------------------- specifications of one function
MaxReviewers == 2

\* The variables of a run.
run == <<all_analysis, remote, tracker, sync, pc, i, visited, posts, deletes,
         analyzed, sent, out, crash, crashAnalysis, crashBug, fails, seenRemote,
         seenTracker, remote0, second>>

\* No run is under way: a BotRemote has been constructed and not run.
Idle ==
  /\ all_analysis = <<>>
  /\ remote = [b \in Bugs |-> {}]
  /\ tracker = [a \in AnalysisIds |-> {}]
  /\ remote0 = remote
  /\ second = FALSE
  /\ Fresh

\* The user references bug_analysis may put in a result: user 1 by id, by
\* email, by both, by a str; user 2; a dict with neither key.
UserRefs ==
  {UserNone, UserDict(1, 0), UserDict(0, 11), UserDict(1, 11), UserStr(11),
   UserDict(2, 0), UserDict(0, 0)}

AnalysisInputs ==
  {[users |-> [creator |-> c, assignee |-> a, reviewers |-> r],
    uplift_comment |-> NoComment,
    uplift_author |-> u] :
     c \in {UserNone, UserStr(12)}, a \in UserRefs,
     r \in SeqsUpTo(UserRefs, MaxReviewers), u \in {UserNone, UserDict(2, 0)}}

InitUsers ==
  /\ Idle
  /\ stage = "input"
  /\ arg \in AnalysisInputs
  /\ res = <<>>

\* BugSync.load_users(analysis) is called.
LoadUsers ==
  /\ stage = "input"
  /\ \E lookup_ok \in BOOLEAN : res' = load_users(arg, lookup_ok)
  /\ stage' = "output"
  /\ UNCHANGED <<run, arg>>

SpecUsers == InitUsers /\ [][LoadUsers]_vars

\* The reference names the user of Bugzilla with this id.
RefersTo(ref, id) ==
  \E p \in Directory :
    /\ p.id = id
    /\ \/ ref.kind = "dict" /\ ref.id = p.id
       \/ ref.kind = "dict" /\ ref.id = 0 /\ ref.email = p.email
       \/ ref.kind = "str" /\ ref.name = p.email

\* C11: when user 1 is the assignee and exactly one of the reviewers, however
\* each reference names the user (id, email or str), and holds no other
\* role, load_users returns one profile for user 1 and its roles are
\* assignee and reviewer, each once.
C11_RolesCollapse ==
  (/\ stage = "output"
   /\ res.err = ""
   /\ RefersTo(arg.users.assignee, 1)
   /\ Cardinality({k \in DOMAIN arg.users.reviewers : RefersTo(arg.users.reviewers[k], 1)}) = 1
   /\ ~RefersTo(arg.users.creator, 1)
   /\ ~RefersTo(arg.uplift_author, 1))
  => LET mine == {k \in DOMAIN res.users : res.users[k].id = 1}
     IN /\ Cardinality(mine) = 1
        /\ \A k \in mine :
             /\ ToSet(res.users[k].roles) = {"assignee", "reviewer"}
             /\ Len(res.users[k].roles) = 2

\* The same, for an assignee and a reviewer that yield the same key.
RolesCollapseSameKey ==
  (/\ stage = "output"
   /\ res.err = ""
   /\ RefersTo(arg.users.assignee, 1)
   /\ Cardinality({k \in DOMAIN arg.users.reviewers : RefersTo(arg.users.reviewers[k], 1)}) = 1
   /\ \A k \in DOMAIN arg.users.reviewers :
        RefersTo(arg.users.reviewers[k], 1) =>
          _extract_user(<<>>, arg.users.reviewers[k], "r").roles[1].key
            = _extract_user(<<>>, arg.users.assignee, "a").roles[1].key
   /\ ~RefersTo(arg.users.creator, 1)
   /\ ~RefersTo(arg.uplift_author, 1))
  => LET mine == {k \in DOMAIN res.users : res.users[k].id = 1}
     IN /\ Cardinality(mine) = 1
        /\ \A k \in mine :
             /\ ToSet(res.users[k].roles) = {"assignee", "reviewer"}
             /\ Len(res.users[k].roles) = 2

\* The raw records a tracker query may return for a bug.
RawRecords ==
  {[id |-> b, query |-> q, attachments |-> a] :
     b \in Bugs, q \in AnalysisIds,
     a \in {<<>>, <<[bug_id |-> 100, file |-> "patch"]>>}}

\* A BugSync after collection, and what bug_analysis returns for its bug.
HashInputs ==
  {[sync |-> [BugSync(d.id) EXCEPT !.bug_data = d, !.on_bugzilla = z, !.on_remote = r],
    analysis |-> a] :
     d \in RawRecords, z \in {<<"A">>, <<"A", "B">>}, r \in {<<>>, <<"A">>},
     a \in {AnalysisPlain, AnalysisUplift}}

InitHash ==
  /\ Idle
  /\ stage = "input"
  /\ arg \in [x : HashInputs, y : HashInputs]
  /\ res = <<>>

\* BugSync.update(bugzilla_url) is called on two BugSync objects.
UpdateBoth ==
  /\ stage = "input"
  /\ res' = [x |-> update(arg.x.sync, "bugzilla", arg.x.analysis, "none").sync.payload,
             y |-> update(arg.y.sync, "bugzilla", arg.y.analysis, "none").sync.payload]
  /\ stage' = "output"
  /\ UNCHANGED <<run, arg>>

SpecHash == InitHash /\ [][UpdateBoth]_vars

\* C12: two updates yield the same payload_hash exactly when their raw
\* records are identical, whatever the analyzer results, the users and the
\* memberships of the two bugs are.
C12_HashOfRecordAlone ==
  stage = "output" =>
    /\ res.x # NonePayload /\ res.y # NonePayload
    /\ (arg.x.sync.bug_data = arg.y.sync.bug_data)
         <=> (res.x[1].payload_hash = res.y[1].payload_hash)

\* Identical records with different analyzer results, users and memberships
\* were hashed, and so were records that differ in their attachments only.
C12_Witness ==
  /\ stage = "output"
  /\ arg.x.sync.bug_data = arg.y.sync.bug_data
  /\ arg.x.analysis # arg.y.analysis
  /\ arg.x.sync.on_bugzilla # arg.y.sync.on_bugzilla
  /\ arg.x.sync.on_remote # arg.y.sync.on_remote
  /\ res.x[1].payload.users # res.y[1].payload.users
  /\ res.x[1].payload_hash = res.y[1].payload_hash

\* The bug ids Bugzilla may report attachments for: a query's bugs and one
\* bug the bug handler was never called for.
AttachmentIds == Bugs \cup {300}

AttachmentLists ==
  {<<>>, <<[bug_id |-> 100, file |-> "patch"]>>,
   <<[bug_id |-> 100, file |-> "patch"], [bug_id |-> 100, file |-> "test"]>>}

\* What the two handlers of list_bugs have collected when wait() returns.
ListBugsInputs ==
  {[bugs |-> bs, attachments |-> as] :
     bs \in UNION {[d -> AnalysisIds] : d \in SUBSET Bugs},
     as \in UNION {[d -> AttachmentLists] : d \in SUBSET AttachmentIds}}

InitListBugs ==
  /\ Idle
  /\ stage = "input"
  /\ arg \in ListBugsInputs
  /\ res = <<>>

\* Bot.list_bugs(query), lines 165-171.
CallListBugs ==
  /\ stage = "input"
  /\ res' = list_bugs([b \in DOMAIN arg.bugs |->
                         [id |-> b, query |-> arg.bugs[b], attachments |-> <<>>]],
                      arg.attachments)
  /\ stage' = "output"
  /\ UNCHANGED <<run, arg>>

SpecListBugs == InitListBugs /\ [][CallListBugs]_vars

\* C17: list_bugs returns exactly the bugs of the bug map; an attachment
\* entry for any other id is dropped; a returned bug with an attachment entry
\* carries that list under 'attachments', and is otherwise as the bug handler
\* stored it.
C17_AttachmentMerge ==
  stage = "output" =>
    /\ DOMAIN res = DOMAIN arg.bugs
    /\ \A b \in DOMAIN arg.bugs \cap DOMAIN res :
         /\ res[b].id = b
         /\ res[b].query = arg.bugs[b]
         /\ b \in DOMAIN arg.attachments => res[b].attachments = arg.attachments[b]
         /\ b \notin DOMAIN arg.attachments => res[b].attachments = <<>>

\* A stray attachment entry was dropped, one bug got its attachments and
\* another bug had none.
C17_Witness ==
  /\ stage = "output"
  /\ 300 \in DOMAIN arg.attachments /\ 300 \notin DOMAIN res
  /\ DOMAIN res = {100, 200}
  /\ 100 \in DOMAIN arg.attachments /\ Len(res[100].attachments) = 2
  /\ 200 \notin DOMAIN arg.attachments

====
